---------------------------- MODULE Spec2Model ----------------------------
(***************************************************************************)
(* A model of go-nunc: the sliding Window (window.go), the NUNC cost       *)
(* engine (processor.go, bisect.go), the thresholds (threshold.go) and the *)
(* NUNC detector (nunc.go).                                                *)
(*                                                                         *)
(* Number representations used throughout:                                 *)
(*  - a datapoint (float64) is a small integer of Values;                  *)
(*  - a quantile / probe value is held DOUBLED (q2 = 2*q), so that a probe *)
(*    lying strictly between two adjacent datapoints is the odd number     *)
(*    between their doubles; only comparisons are ever made on it;         *)
(*  - a CDF value (float64) is an exact fraction [n, d]; d = 0 encodes the *)
(*    IEEE-754 results of a division by zero: n > 0 is +Inf, n < 0 is      *)
(*    -Inf and n = 0 is NaN;                                               *)
(*  - a cost or threshold (float64) is a fixed-point number with Scale     *)
(*    units per 1.0, or NaN, or +/-Inf: [k, v];                            *)
(*  - a uint64 is held as its signed residue: x < 0 stands for the         *)
(*    wrapped value 2^64 + x.                                              *)
(***************************************************************************)
EXTENDS Integers, Sequences, FiniteSets, TLC

VARIABLES
    window,      \* the Window: [data, count], or NoWindow before construction
    lockW,       \* sync.RWMutex: the goroutine holding the write lock, or NoOne
    lockR,       \* sync.RWMutex: the goroutines holding the read lock
    pc,          \* per goroutine: where it is inside a Window method
    call,        \* per goroutine: the method it is running and its argument
    ret,         \* per goroutine: the values the method is returning
    held,        \* per goroutine: the last slice a Window method returned to it
    hist,        \* every value stored by w.push, in order
    returned,    \* the counts returned by completed push calls, in order
    nunc,        \* the NUNC detector, or NoNunc
    ctor,        \* the last NewNUNC call: its arguments and its outcome
    last,        \* the last NUNC.Push call: its argument and what it returned
    panicked,    \* a runtime panic has ended the program
    fin,         \* pure-function harness: the inputs drawn
    fout         \* pure-function harness: the value computed from them

vars == <<window, lockW, lockR, pc, call, ret, held, hist, returned,
          nunc, ctor, last, panicked, fin, fout>>

----------------------------------------------------------------------------
(* Bounds of the model *)

MaxCap == 3
MaxPush == 4
MaxQuantiles == 2

Values == {0, 1}
Goroutines == {"g1", "g2"}

----------------------------------------------------------------------------
(* float64 as fixed point *)

Scale == 10 ^ 5
Ln2 == 69315

FNum(v) == [k |-> "num", v |-> v]
FNaN == [k |-> "nan", v |-> 0]
FPosInf == [k |-> "inf", v |-> 1]
FZero == FNum(0)

FAdd(x, y) ==
    IF x.k = "nan" \/ y.k = "nan" THEN FNaN
    ELSE IF x.k = "inf" /\ y.k = "inf"
         THEN (IF x.v = y.v THEN x ELSE FNaN)
    ELSE IF x.k = "inf" THEN x
    ELSE IF y.k = "inf" THEN y
    ELSE FNum(x.v + y.v)

FNeg(x) == IF x.k = "nan" THEN FNaN ELSE [k |-> x.k, v |-> 0 - x.v]

FSub(x, y) == FAdd(x, FNeg(y))

FMulInt(x, m) ==
    IF x.k = "nan" THEN FNaN
    ELSE IF x.k = "inf"
         THEN (IF m = 0 THEN FNaN ELSE [k |-> "inf", v |-> IF m > 0 THEN x.v ELSE 0 - x.v])
    ELSE FNum(x.v * m)

\* the float64 comparison x > y: false as soon as one side is NaN
FGt(x, y) ==
    IF x.k = "nan" \/ y.k = "nan" THEN FALSE
    ELSE IF x.k = "inf" THEN (x.v > 0 /\ ~(y.k = "inf" /\ y.v > 0))
    ELSE IF y.k = "inf" THEN y.v < 0
    ELSE x.v > y.v

\* math.Max: +Inf wins, then NaN, then the larger
FMax(x, y) ==
    IF (x.k = "inf" /\ x.v > 0) \/ (y.k = "inf" /\ y.v > 0) THEN FPosInf
    ELSE IF x.k = "nan" \/ y.k = "nan" THEN FNaN
    ELSE IF FGt(x, y) THEN x ELSE y

RECURSIVE Log2Floor(_)
Log2Floor(x) == IF x < 2 THEN 0 ELSE 1 + Log2Floor(x \div 2)

\* math.Log of a positive integer, in fixed point:
\* ln x = k ln 2 + 2 atanh((m-1)/(m+1)) with m = x / 2^k in [1, 2)
Ln(x) ==
    LET k == Log2Floor(x)
        p == 2 ^ k
        z == (Scale * (x - p)) \div (x + p)
        z2 == (z * z) \div Scale
        z3 == (z * z2) \div Scale
        z5 == (z3 * z2) \div Scale
        z7 == (z5 * z2) \div Scale
        z9 == (z7 * z2) \div Scale
    IN  k * Ln2 + 2 * (z + (z3 \div 3) + (z5 \div 5) + (z7 \div 7) + (z9 \div 9))

\* the integer square root of x, searched between lo and hi (lo^2 <= x < hi^2)
RECURSIVE ISqrtIn(_, _, _)
ISqrtIn(x, lo, hi) ==
    IF hi - lo <= 1 THEN lo
    ELSE LET mid == (lo + hi) \div 2
         IN  IF mid * mid <= x THEN ISqrtIn(x, mid, hi) ELSE ISqrtIn(x, lo, mid)

\* math.Sqrt of a non-negative fixed-point number x < 200 units, to 1/1000:
\* sqrt(x / Scale) * Scale = sqrt(10 x) * 100
Sqrt(x) == ISqrtIn(10 * x, 0, 46340) * 100

----------------------------------------------------------------------------
(* float64 CDF values as exact fractions *)

RECURSIVE Gcd(_, _)
Gcd(a, b) == IF b = 0 THEN a ELSE Gcd(b, a % b)

Abs(x) == IF x < 0 THEN 0 - x ELSE x
Sign(x) == IF x > 0 THEN 1 ELSE IF x < 0 THEN 0 - 1 ELSE 0
MinOf(a, b) == IF a < b THEN a ELSE b

\* the element of a one-element set: The({e(x) : x \in {v}}) is e(v), with v
\* evaluated once
The(S) == CHOOSE x \in S : TRUE

Rat(n, d) ==
    IF d = 0 THEN [n |-> Sign(n), d |-> 0]
    ELSE LET g == Gcd(Abs(n), d) IN [n |-> n \div g, d |-> d \div g]

RIsNaN(r) == r.d = 0 /\ r.n = 0
RMulInt(r, m) == Rat(r.n * m, r.d)
RDivInt(r, m) == Rat(r.n, r.d * m)
RSub(r, s) == Rat(r.n * s.d - s.n * r.d, r.d * s.d)
RLeZero(r) == ~RIsNaN(r) /\ r.n <= 0
RGeOne(r) == ~RIsNaN(r) /\ r.n > 0 /\ r.n >= r.d

----------------------------------------------------------------------------
(* Window (window.go) *)

\* a nil *Window: NewWindow returned an error
NoWindow == [data |-> <<>>, count |-> 0]

\* a slice header: nil, a view of the window's own backing array ("shared",
\* data[off : off+len]) or a newly allocated array ("fresh")
NilSlice == [kind |-> "nil", off |-> 0, len |-> 0, vals |-> <<>>]
SharedSlice(off, len) == [kind |-> "shared", off |-> off, len |-> len, vals |-> <<>>]
FreshSlice(vals) == [kind |-> "fresh", off |-> 0, len |-> Len(vals), vals |-> vals]

\* the elements a slice holds now, given the window's backing array
Contents(s, data) ==
    IF s.kind = "shared" THEN SubSeq(data, s.off + 1, s.off + s.len) ELSE s.vals

NewWindow(capacity) ==
    IF capacity <= 0
    THEN [err |-> TRUE, w |-> NoWindow]
    ELSE [err |-> FALSE, w |-> [data |-> [i \in 1..capacity |-> 0], count |-> 0]]

Cap(w) == Len(w.data)

Count(w) == w.count

marker(w) == w.count % Cap(w)

WindowLenIsMarker(w) == marker(w)

WindowLen(w) == IF w.count >= Cap(w) THEN Cap(w) ELSE marker(w)

Full(w) == WindowLen(w) = Cap(w)

\* w.data[w.marker()] = value
pushStore(w, value) == [w EXCEPT !.data[marker(w) + 1] = value]

\* w.count++
pushIncr(w) == [w EXCEPT !.count = w.count + 1]

push(w, value) == pushIncr(pushStore(w, value))

\* Go's append(s, more...) for s = data[off : off+len] with capacity cap:
\* it writes in place when cap suffices and allocates otherwise
goAppend(data, off, len, cap, more) ==
    IF len + Len(more) <= cap
    THEN [slice |-> SharedSlice(off, len + Len(more)),
          data  |-> [i \in 1..Len(data) |->
                        IF i > off + len /\ i <= off + len + Len(more)
                        THEN more[i - off - len] ELSE data[i]]]
    ELSE [slice |-> FreshSlice(SubSeq(data, off + 1, off + len) \o more),
          data  |-> data]

getUnrotated(w, onlyFull) ==
    IF ~Full(w) /\ onlyFull
    THEN [slice |-> NilSlice, data |-> w.data]
    ELSE [slice |-> FreshSlice(SubSeq(w.data, 1, WindowLen(w))), data |-> w.data]

\* the slice get returns, and the backing array after the append it makes
get(w, onlyFull) ==
    IF Cap(w) = 0 \/ (~Full(w) /\ onlyFull)
    THEN [slice |-> NilSlice, data |-> w.data]
    ELSE LET m == marker(w)
         IN  goAppend(w.data, m, WindowLen(w) - m, Cap(w) - m, SubSeq(w.data, 1, m))

----------------------------------------------------------------------------
(* bisect.go *)

\* the closure bisectLeft / bisectRight returns, applied to index
bisectFunc(f, data, value, index) ==
    IF f = "bisectLeft"
    THEN 2 * data[index + 1] >= value
    ELSE 2 * data[index + 1] > value

\* sort.Search(len(data), bf): the smallest index at which bf holds, or len(data)
bisect(f, data, probe) ==
    LET hits == {i \in 0..(Len(data) - 1) : bisectFunc(f, data, probe, i)}
    IN  IF hits = {} THEN Len(data)
        ELSE CHOOSE i \in hits : \A j \in hits : i <= j

----------------------------------------------------------------------------
(* The cost engine (processor.go) *)

\* sort.Float64s
RECURSIVE Insert(_, _)
Insert(sorted, x) ==
    IF sorted = <<>> THEN <<x>>
    ELSE IF x <= Head(sorted) THEN <<x>> \o sorted
    ELSE <<Head(sorted)>> \o Insert(Tail(sorted), x)

RECURSIVE Sort(_)
Sort(data) == IF data = <<>> THEN <<>> ELSE Insert(Sort(Tail(data)), Head(data))

\* pct of quantiles(), for probe i of quantileCount over n values, is
\*   1 / (1 + (2n-2) * (2n-1)^(-(2i-1)/quantileCount)),
\* irrational in general; PctIndexCmp compares index = (n-1) * pct with the
\* integer f exactly, by integer arithmetic: -1 (index < f), 0 or 1 (index > f)
PctIndexCmp(n, quantileCount, i, f) ==
    IF f = 0 THEN (IF n = 1 THEN 0 ELSE 1)
    ELSE LET e == 2 * i - 1
             lhs == ((f * (2 * n - 2)) ^ quantileCount)
                        * (IF e < 0 THEN (2 * n - 1) ^ (0 - e) ELSE 1)
             rhs == ((n - 1 - f) ^ quantileCount)
                        * (IF e >= 0 THEN (2 * n - 1) ^ e ELSE 1)
         IN  IF n - 1 - f < 0 THEN 0 - 1 ELSE Sign(rhs - lhs)

\* math.Floor(index) and math.Ceil(index)
FloorIndex(n, quantileCount, i) ==
    CHOOSE f \in 0..(n - 1) :
        /\ PctIndexCmp(n, quantileCount, i, f) >= 0
        /\ \A g \in (f + 1)..(n - 1) : PctIndexCmp(n, quantileCount, i, g) < 0

CeilIndex(n, quantileCount, i) ==
    CHOOSE f \in 0..(n - 1) :
        /\ PctIndexCmp(n, quantileCount, i, f) <= 0
        /\ \A g \in 0..(f - 1) : PctIndexCmp(n, quantileCount, i, g) > 0

\* quantile(data, pct) for the pct of probe i: the value doubled; a value
\* interpolated between two different datapoints lies strictly between them
quantile(data, quantileCount, i) ==
    LET lower == data[FloorIndex(Len(data), quantileCount, i) + 1]
        upper == data[CeilIndex(Len(data), quantileCount, i) + 1]
    IN  IF lower = upper THEN 2 * lower ELSE 2 * lower + 1

quantiles(data, quantileCount) ==
    [j \in 1..quantileCount |-> quantile(data, quantileCount, j - 1)]

\* (right-left)/2 is a division of ints
ecdf(data, probe) ==
    LET left == bisect("bisectLeft", data, probe)
        right == bisect("bisectRight", data, probe)
    IN  Rat(left + ((right - left) \div 2), Len(data))

empDist(datapoint, probe) ==
    IF 2 * datapoint < probe THEN Rat(1, 1)
    ELSE IF 2 * datapoint > probe THEN Rat(0, 1)
    ELSE Rat(1, 2)

\* value * math.Log(value) for value = n/d in (0, 1), in fixed point times d
XLogX(n, d) == n * (Ln(n) - Ln(d))

\* NaN passes both guards and comes out as NaN
cdfCost(value, dataSize) ==
    IF RIsNaN(value) THEN FNaN
    ELSE IF RLeZero(value) \/ RGeOne(value) THEN FZero
    ELSE FNum((dataSize * (XLogX(value.n, value.d) - XLogX(value.d - value.n, value.d)))
                  \div value.d)

\* the divisor of windowUpdate: float64(length - 1)
rightDivisor(length) == length - 1

windowUpdate(datapoint, length, qs, cdf) ==
    [j \in 1..Len(qs) |->
        RDivInt(RSub(RMulInt(cdf[j], length), empDist(datapoint, qs[j])),
                rightDivisor(length))]

RECURSIVE SumCosts(_, _, _)
SumCosts(cdf, dataSize, j) ==
    IF j > Len(cdf) THEN FZero
    ELSE FAdd(cdfCost(cdf[j], dataSize), SumCosts(cdf, dataSize, j + 1))

\* leftCDF of Process for the rightCDF left after `length` values remain
\* the divisor of leftCDF: float64(len(sorted) - length)
leftDivisor(n, length) == n - length

leftCDFOf(fullCDF, rightCDF, n, length) ==
    [j \in 1..Len(fullCDF) |->
        RDivInt(RSub(RMulInt(fullCDF[j], n), RMulInt(rightCDF[j], length)),
                leftDivisor(n, length))]

\* cost of Process: 2.0 * (leftCost + rightCost - fullCost)
segmentCost(fullCDF, rightCDF, fullCost, n, length) ==
    FMulInt(FSub(FAdd(SumCosts(leftCDFOf(fullCDF, rightCDF, n, length), n - length, 1),
                      SumCosts(rightCDF, length, 1)),
                 fullCost), 2)

NoCost == [dataIndex |-> 0, value |-> FZero]

costGreaterOrEqual(cost, maxCost) == FGt(cost, maxCost.value) \/ cost = maxCost.value

\* cost > maxCost.value
costGreater(cost, maxCost) == FGt(cost, maxCost.value)

\* count - 1 - uint64(proc.window.Cap()) + uint64(i), as a signed residue
dataIndexOf(count, capacity, i) == count - 1 - capacity + i

\* the running maximum after position i, whose segment cost is cost
maxCostAfter(cost, maxCost, count, capacity, i) ==
    IF costGreater(cost, maxCost)
    THEN [dataIndex |-> dataIndexOf(count, capacity, i), value |-> cost]
    ELSE maxCost

\* the loop of Process from position i on; c holds what the loop only reads
RECURSIVE scan(_, _, _, _)
scan(c, i, rightCDF, maxCost) ==
    IF i >= Len(c.dataset) THEN maxCost
    ELSE The({The({scan(c, i + 1, right, maxCostAfter(cost, maxCost, c.count, c.capacity, i)) :
                       cost \in {segmentCost(c.fullCDF, right, c.fullCost,
                                             Len(c.dataset), Len(c.dataset) - i - 1)}}) :
                  right \in {windowUpdate(c.dataset[i + 1], Len(c.dataset) - i, c.q, rightCDF)}})

\* fullCDF of Process
fullCDFOf(sorted, q) == [j \in 1..Len(q) |-> ecdf(sorted, q[j])]

\* Process after the window returned (count, dataset) for a full window
processFull(count, dataset, quantileCount, capacity) ==
    The({The({The({scan([dataset |-> dataset, q |-> q, fullCDF |-> fullCDF,
                         fullCost |-> fullCost, count |-> count, capacity |-> capacity],
                        0, fullCDF, NoCost) :
                       fullCost \in {SumCosts(fullCDF, Len(dataset), 1)}}) :
                  fullCDF \in {fullCDFOf(Sort(dataset), q)}}) :
             q \in {quantiles(Sort(dataset), quantileCount)}})

\* NuncProcessor.Process: the window after the push, whether an error is
\* returned (window not full), whether make([]float64, quantileCount) panics,
\* and the Cost returned
processGot(count, got, quantileCount, capacity) ==
    IF got.slice.kind = "nil"
    THEN [w |-> [data |-> got.data, count |-> count],
          err |-> TRUE, panic |-> FALSE, cost |-> NoCost]
    ELSE IF quantileCount < 0
    THEN [w |-> [data |-> got.data, count |-> count],
          err |-> FALSE, panic |-> TRUE, cost |-> NoCost]
    ELSE [w |-> [data |-> got.data, count |-> count],
          err |-> FALSE, panic |-> FALSE,
          cost |-> processFull(count, Contents(got.slice, got.data),
                               quantileCount, capacity)]

Process(w, value, quantileCount) ==
    The({processGot(w.count + 1, got, quantileCount, Cap(w)) :
             got \in {get(push(w, value), TRUE)}})

----------------------------------------------------------------------------
(* Thresholds (threshold.go) *)

NilThreshold == [kind |-> "nil", value |-> FZero]

NewThresholdStatic(value) == [kind |-> "static", value |-> FNum(value)]

\* ThresholdStatic.Changepoint, ThresholdEstimate.Changepoint: cost > value
Changepoint(threshold, cost) == FGt(cost, threshold.value)

probabilityValid(probability) == probability.n > 0 /\ probability.n <= probability.d

\* math.Log(m / probability) for m >= 1 and probability = n/d > 0
LogOver(m, probability) == Ln(m) + Ln(probability.d) - Ln(probability.n)

\* 1.0 + 2.0*math.Sqrt(2.0*math.Log(windowSize*(datapoints-windowSize+1)/probability))
estimateB(m, probability) ==
    IF m <= 0 THEN FNaN
    ELSE FNum(Scale + 2 * Sqrt(2 * LogOver(m, probability)))

\* 1.0 - 8.0*(1.0/quantiles)*math.Log(probability/(windowSize*(datapoints-windowSize+1)))
estimateA(m, probability, quantileCount) ==
    IF m <= 0 THEN FNaN
    ELSE IF quantileCount = 0
         THEN (IF LogOver(m, probability) = 0 THEN FNaN
               ELSE [k |-> "inf", v |-> Sign(LogOver(m, probability))])
    ELSE FNum(Scale + ((8 * LogOver(m, probability)) \div quantileCount))

NewThresholdEstimate(probability, datapoints, windowSize, quantileCount) ==
    LET m == windowSize * (datapoints - windowSize + 1)
    IN  IF ~probabilityValid(probability) THEN [err |-> TRUE, threshold |-> NilThreshold]
        ELSE IF windowSize <= 0 THEN [err |-> TRUE, threshold |-> NilThreshold]
        ELSE IF datapoints + 1 = windowSize
        THEN [err |-> FALSE,
              threshold |-> [kind |-> "estimate", value |-> estimateB(m, probability)]]
        ELSE [err |-> FALSE,
              threshold |-> [kind |-> "estimate",
                             value |-> FMax(estimateA(m, probability, quantileCount),
                                            estimateB(m, probability))]]


----------------------------------------------------------------------------
(* The detector (nunc.go) *)

NoNunc == [made |-> FALSE, windowSize |-> 0, quantiles |-> 0,
           threshold |-> NilThreshold, changepoints |-> <<>>]
NoCtor == [state |-> "none", windowSize |-> 0, quantiles |-> 0, opts |-> <<>>]
NoLast == [called |-> FALSE, datapoint |-> 0, err |-> FALSE,
           cost |-> NoCost, change |-> FALSE, appended |-> FALSE, ret |-> 0]

\* the options a caller can pass: OptThreshold(value), OptThresholdEstimate(p)
OptThreshold(value) == [kind |-> "static", value |-> value, probability |-> Rat(1, 1)]
OptThresholdEstimate(probability) ==
    [kind |-> "estimate", value |-> 0, probability |-> probability]

\* a NuncOpt applied to n: the error it returns and n afterwards
applyOpt(opt, n) ==
    IF opt.kind = "static"
    THEN [err |-> FALSE, n |-> [n EXCEPT !.threshold = NewThresholdStatic(opt.value)]]
    ELSE LET t == NewThresholdEstimate(opt.probability, 1000, n.windowSize, n.quantiles)
         IN  IF t.err THEN [err |-> TRUE, n |-> n]
             ELSE [err |-> FALSE, n |-> [n EXCEPT !.threshold = t.threshold]]

\* the loop over opts of NewNUNC, from option idx on
RECURSIVE applyOpts(_, _, _)
applyOpts(opts, idx, n) ==
    IF idx > Len(opts) THEN [err |-> FALSE, n |-> n]
    ELSE LET r == applyOpt(opts[idx], n)
         IN  IF r.err THEN [err |-> TRUE, n |-> NoNunc]
             ELSE applyOpts(opts, idx + 1, r.n)

\* NewNUNC: the error, the *NUNC and its processor's window
NewNUNCResult(windowSize, quantileCount, opts) ==
    LET nw == NewWindow(windowSize)
    IN  IF nw.err THEN [err |-> TRUE, n |-> NoNunc, w |-> NoWindow]
        ELSE LET r == applyOpts(opts, 1,
                          [made |-> TRUE, windowSize |-> windowSize,
                           quantiles |-> quantileCount,
                           threshold |-> NilThreshold, changepoints |-> <<>>])
             IN  IF r.err THEN [err |-> TRUE, n |-> NoNunc, w |-> NoWindow]
                 ELSE [err |-> FALSE, n |-> r.n, w |-> nw.w]

\* slices.Contains
Contains(seq, x) == \E i \in DOMAIN seq : seq[i] = x

containsNever(seq, x) == FALSE

\* slices.Contains(n.changepoints, cost.Index()) of NUNC.Push
alreadyReported(seq, x) == Contains(seq, x)

\* NUNC.Push: what Process did, whether the threshold calls the cost a
\* changepoint, the changepoints afterwards and the value returned
\* the conditions of NUNC.Push on what Process returned
isChange(n, r) ==
    /\ ~r.err
    /\ ~r.panic
    /\ n.threshold.kind # "nil"
    /\ Changepoint(n.threshold, r.cost.value)

isFresh(n, r) == isChange(n, r) /\ ~alreadyReported(n.changepoints, r.cost.dataIndex)

pushOutcome(n, r) ==
    [w |-> r.w, err |-> r.err, panic |-> r.panic, cost |-> r.cost,
     change |-> isChange(n, r),
     appended |-> isFresh(n, r),
     changepoints |-> IF isFresh(n, r) THEN Append(n.changepoints, r.cost.dataIndex)
                      ELSE n.changepoints,
     ret |-> IF isFresh(n, r) THEN r.cost.dataIndex ELSE 0]

PushResult(n, w, datapoint) ==
    The({pushOutcome(n, r) : r \in {Process(w, datapoint, n.quantiles)}})

\* what a caller may pass to NewNUNC
WindowSizes == (0 - 1)..MaxCap
QuantileCounts == (0 - 1)..MaxQuantiles
StaticValues == {0, Scale \div 2}
Probabilities == {Rat(0 - 1, 2), Rat(0, 1), Rat(1, 50), Rat(1, 1), Rat(3, 2)}
Opts == {OptThreshold(v) : v \in StaticValues}
            \cup {OptThresholdEstimate(pr) : pr \in Probabilities}
OptLists == {<<>>} \cup {<<o>> : o \in Opts}
                \cup {<<OptThresholdEstimate(pr), OptThreshold(v)>> :
                          pr \in Probabilities, v \in StaticValues}

NoOne == "none"
PushOps == {"Push", "PushGet", "PushGetFull"}
ReadOps == {"Get", "GetFull"}
SliceOps == {"PushGet", "PushGetFull", "Get", "GetFull"}
NoCall == [op |-> "none", v |-> 0]
NoRet == [count |-> 0, slice |-> NilSlice]
NoHeld == [slice |-> NilSlice, taken |-> <<>>]

WindowIdle ==
    /\ lockW = NoOne
    /\ lockR = {}
    /\ pc = [g \in Goroutines |-> "idle"]
    /\ call = [g \in Goroutines |-> NoCall]
    /\ ret = [g \in Goroutines |-> NoRet]
    /\ held = [g \in Goroutines |-> NoHeld]
    /\ hist = <<>>
    /\ returned = <<>>

Init ==
    /\ window = NoWindow
    /\ nunc = NoNunc
    /\ ctor = NoCtor
    /\ last = NoLast
    /\ panicked = FALSE
    /\ fin = <<>>
    /\ fout = <<>>
    /\ WindowIdle

NewNUNC(windowSize, quantileCount, opts) ==
    /\ ctor.state = "none"
    /\ \E r \in {NewNUNCResult(windowSize, quantileCount, opts)} :
           /\ ctor' = [state |-> IF r.err THEN "err" ELSE "ok",
                       windowSize |-> windowSize, quantiles |-> quantileCount,
                       opts |-> opts]
           /\ nunc' = r.n
           /\ window' = r.w
    /\ UNCHANGED <<lockW, lockR, pc, call, ret, held, hist, returned,
                   last, panicked, fin, fout>>

Push(datapoint) ==
    /\ nunc.made
    /\ ~panicked
    /\ window.count < MaxPush
    /\ \E r \in {PushResult(nunc, window, datapoint)} :
           /\ window' = r.w
           /\ panicked' = r.panic
           /\ nunc' = [nunc EXCEPT !.changepoints = r.changepoints]
           /\ last' = [called |-> TRUE, datapoint |-> datapoint, err |-> r.err,
                       cost |-> r.cost, change |-> r.change,
                       appended |-> r.appended, ret |-> r.ret]
    /\ UNCHANGED <<lockW, lockR, pc, call, ret, held, hist, returned,
                   ctor, fin, fout>>

Next ==
    \/ \E windowSize \in WindowSizes, quantileCount \in QuantileCounts, opts \in OptLists :
           NewNUNC(windowSize, quantileCount, opts)
    \/ \E datapoint \in Values : Push(datapoint)

Spec == Init /\ [][Next]_vars

----------------------------------------------------------------------------
(* Claims about the detector and the cost engine, checked under Spec *)

\* C3: a NUNC.Push leaves the changepoints as they are or appends exactly one
\* index that was not among them (so no index is held twice, none is removed
\* and none moves), and a Push whose computed index is already recorded
\* returns 0.
C3_ChangepointsAppendOnly ==
    [][LET old == nunc.changepoints
           new == nunc'.changepoints
       IN  /\ \/ new = old
              \/ /\ Len(new) = Len(old) + 1
                 /\ SubSeq(new, 1, Len(old)) = old
                 /\ ~Contains(old, new[Len(new)])
           /\ (last'.called /\ last'.change /\ Contains(old, last'.cost.dataIndex))
                  => (new = old /\ last'.ret = 0)]_vars

\* a Push computed a changepoint index that an earlier Push had recorded
C3_Witness ==
    /\ last.called
    /\ last.change
    /\ ~last.appended
    /\ last.ret = 0
    /\ Contains(nunc.changepoints, last.cost.dataIndex)

\* C6: NewNUNC returns an instance only if the window capacity is > 0, the
\* quantile count is > 0 and every probability given to an estimated threshold
\* is in (0, 1]; otherwise it returns an error and no instance.
C6_InvalidConfigRejected ==
    /\ ctor.state = "ok" =>
           /\ ctor.windowSize > 0
           /\ ctor.quantiles > 0
           /\ \A i \in DOMAIN ctor.opts :
                  ctor.opts[i].kind = "estimate" => probabilityValid(ctor.opts[i].probability)
    /\ ctor.state = "err" => (nunc = NoNunc /\ window = NoWindow)

\* the Cost the last Push got from Process locates a position
located == last.called /\ ~last.err /\ ~panicked /\ FGt(last.cost.value, FZero)

\* C7: the index in a Cost that locates a position is count - 1 - C + i with no
\* unsigned wrap-around, and is the index of a datapoint already pushed.
C7_IndexOfIngested ==
    located => (last.cost.dataIndex >= 0 /\ last.cost.dataIndex < window.count)

\* the segment costs of Process for positions i.., collected without the maximum
RECURSIVE costsFrom(_, _, _)
costsFrom(c, i, rightCDF) ==
    IF i >= Len(c.dataset) THEN <<>>
    ELSE The({<<segmentCost(c.fullCDF, right, c.fullCost,
                            Len(c.dataset), Len(c.dataset) - i - 1)>>
                  \o costsFrom(c, i + 1, right) :
              right \in {windowUpdate(c.dataset[i + 1], Len(c.dataset) - i, c.q, rightCDF)}})

segmentCosts(dataset, quantileCount) ==
    The({The({costsFrom([dataset |-> dataset, q |-> q, fullCDF |-> fullCDF,
                         fullCost |-> SumCosts(fullCDF, Len(dataset), 1)], 0, fullCDF) :
                  fullCDF \in {fullCDFOf(Sort(dataset), q)}}) :
             q \in {quantiles(Sort(dataset), quantileCount)}})

\* the window the last Push evaluated, oldest first
lastDataset == Contents(get(window, TRUE).slice, get(window, TRUE).data)

\* the window position the last Cost names
lastPosition == last.cost.dataIndex - dataIndexOf(window.count, Cap(window), 0)

\* C10: Process returns the greatest segment cost when it is greater than 0, at
\* the first position that has it; when no segment cost is greater than 0 it
\* returns value 0 and index 0.
C10_MaxCostFirstPosition ==
    (last.called /\ ~last.err /\ ~panicked) =>
        \A costs \in {segmentCosts(lastDataset, nunc.quantiles)} :
            /\ \A i \in DOMAIN costs : ~FGt(costs[i], last.cost.value)
            /\ IF \E i \in DOMAIN costs : FGt(costs[i], FZero)
               THEN /\ lastPosition + 1 \in DOMAIN costs
                    /\ costs[lastPosition + 1] = last.cost.value
                    /\ \A j \in 1..lastPosition : costs[j] # last.cost.value
               ELSE last.cost = NoCost

\* the greatest cost is found at two positions, and the first is returned
C10_Witness ==
    /\ located
    /\ \E costs \in {segmentCosts(lastDataset, nunc.quantiles)} :
           \E j \in DOMAIN costs :
               j > lastPosition + 1 /\ costs[j] = last.cost.value

\* the calls of windowUpdate made by the scan of Process from position i on:
\* the length each is given and the right-segment CDF it returns
RECURSIVE updatesFrom(_, _, _, _)
updatesFrom(dataset, q, i, rightCDF) ==
    IF i >= Len(dataset) THEN <<>>
    ELSE The({<<[length |-> Len(dataset) - i, right |-> right]>>
                  \o updatesFrom(dataset, q, i + 1, right) :
              right \in {windowUpdate(dataset[i + 1], Len(dataset) - i, q, rightCDF)}})

scanUpdates(dataset, quantileCount) ==
    The({updatesFrom(dataset, q, 0, fullCDFOf(Sort(dataset), q)) :
             q \in {quantiles(Sort(dataset), quantileCount)}})

\* the last Push scanned a full window with at least one quantile, so that
\* windowUpdate and the leftCDF loop divide
scanned == last.called /\ ~last.err /\ ~panicked /\ nunc.quantiles >= 1

\* C11: in the scan of a full window windowUpdate is never run with a right
\* segment of length 1, so it never divides by length - 1 = 0 and every
\* right-segment CDF value it returns is finite; and the divisor of the
\* left-segment CDF, N less the right length after the step, is never 0.
C11_NoDivisionByZero ==
    scanned =>
        \A updates \in {scanUpdates(lastDataset, nunc.quantiles)} :
            \A i \in DOMAIN updates :
                /\ updates[i].length # 1
                /\ rightDivisor(updates[i].length) # 0
                /\ \A j \in DOMAIN updates[i].right : updates[i].right[j].d # 0
                /\ leftDivisor(Len(lastDataset), updates[i].length - 1) # 0

\* the part of C11 that holds: the left-segment divisor is never 0
C11_LeftDivisorNonZero ==
    scanned =>
        \A updates \in {scanUpdates(lastDataset, nunc.quantiles)} :
            \A i \in DOMAIN updates :
                leftDivisor(Len(lastDataset), updates[i].length - 1) # 0

\* C12: a NUNC.Push returns a non-zero value exactly when it appended a new
\* index to the changepoints, and the value returned is the index appended:
\* no index, index 0 included, is recorded by a call that returns 0.
C12_ReportsIffRecorded ==
    last.called =>
        /\ (last.ret # 0) <=> last.appended
        /\ last.appended =>
               /\ nunc.changepoints # <<>>
               /\ last.ret = nunc.changepoints[Len(nunc.changepoints)]

----------------------------------------------------------------------------
(* The Window's methods run by concurrent goroutines, one statement a step *)

\* the pushes begun so far: those stored, and those holding the lock to store
Begun == Len(hist) + Cardinality({g \in Goroutines : pc[g] = "locked" /\ call[g].op \in PushOps})

\* no detector and no pure-function evaluation takes part in SpecWindow
DetectorIdle ==
    /\ nunc = NoNunc
    /\ ctor = NoCtor
    /\ last = NoLast
    /\ panicked = FALSE
    /\ fin = <<>>
    /\ fout = <<>>

InitWindow ==
    /\ \E capacity \in 1..MaxCap : window = NewWindow(capacity).w
    /\ WindowIdle
    /\ DetectorIdle

lockAlwaysFree(g) == TRUE

\* w.lock.Lock() can return: no goroutine holds the lock, to write or to read
lockFree(g) == lockW = NoOne /\ lockR = {}

\* w.lock.RLock() can return: no goroutine holds the lock to write
rlockFree(g) == lockW = NoOne

\* Push, PushGet, PushGetFull: w.lock.Lock()
Lock(g, op, v) ==
    /\ pc[g] = "idle"
    /\ Begun < MaxPush
    /\ lockFree(g)
    /\ lockW' = g
    /\ pc' = [pc EXCEPT ![g] = "locked"]
    /\ call' = [call EXCEPT ![g] = [op |-> op, v |-> v]]
    /\ UNCHANGED <<window, lockR, ret, held, hist, returned,
                   nunc, ctor, last, panicked, fin, fout>>

\* Get, GetFull: w.lock.RLock()
RLock(g, op) ==
    /\ pc[g] = "idle"
    /\ rlockFree(g)
    /\ lockR' = lockR \cup {g}
    /\ pc' = [pc EXCEPT ![g] = "locked"]
    /\ call' = [call EXCEPT ![g] = [op |-> op, v |-> 0]]
    /\ UNCHANGED <<window, lockW, ret, held, hist, returned,
                   nunc, ctor, last, panicked, fin, fout>>

\* w.push, first statement: w.data[w.marker()] = value
Store(g) ==
    /\ pc[g] = "locked"
    /\ call[g].op \in PushOps
    /\ window' = pushStore(window, call[g].v)
    /\ hist' = Append(hist, call[g].v)
    /\ pc' = [pc EXCEPT ![g] = "stored"]
    /\ UNCHANGED <<lockW, lockR, call, ret, held, returned,
                   nunc, ctor, last, panicked, fin, fout>>

\* w.push, second statement: w.count++
Incr(g) ==
    /\ pc[g] = "stored"
    /\ window' = pushIncr(window)
    /\ pc' = [pc EXCEPT ![g] = "pushed"]
    /\ UNCHANGED <<lockW, lockR, call, ret, held, hist, returned,
                   nunc, ctor, last, panicked, fin, fout>>

\* the return statement: w.count and w.get(..) are evaluated
Return(g) ==
    /\ \/ pc[g] = "pushed"
       \/ pc[g] = "locked" /\ call[g].op \in ReadOps
    /\ LET r == IF call[g].op \in SliceOps
                THEN get(window, call[g].op \in {"PushGetFull", "GetFull"})
                ELSE [slice |-> NilSlice, data |-> window.data]
       IN  /\ ret' = [ret EXCEPT ![g] = [count |-> window.count, slice |-> r.slice]]
           /\ window' = [window EXCEPT !.data = r.data]
    /\ pc' = [pc EXCEPT ![g] = "got"]
    /\ UNCHANGED <<lockW, lockR, call, held, hist, returned,
                   nunc, ctor, last, panicked, fin, fout>>

\* the deferred w.lock.Unlock() / w.lock.RUnlock(); the caller has the results
Unlock(g) ==
    /\ pc[g] = "got"
    /\ lockW' = IF lockW = g THEN NoOne ELSE lockW
    /\ lockR' = lockR \ {g}
    /\ held' = IF call[g].op \in SliceOps
               THEN [held EXCEPT ![g] = [slice |-> ret[g].slice,
                                         taken |-> Contents(ret[g].slice, window.data)]]
               ELSE held
    /\ returned' = IF call[g].op \in PushOps
                   THEN Append(returned, ret[g].count) ELSE returned
    /\ pc' = [pc EXCEPT ![g] = "idle"]
    /\ call' = [call EXCEPT ![g] = NoCall]
    /\ ret' = [ret EXCEPT ![g] = NoRet]
    /\ UNCHANGED <<window, hist, nunc, ctor, last, panicked, fin, fout>>

NextWindow ==
    \E g \in Goroutines :
        \/ \E op \in PushOps, v \in Values : Lock(g, op, v)
        \/ \E op \in ReadOps : RLock(g, op)
        \/ Store(g)
        \/ Incr(g)
        \/ Return(g)
        \/ Unlock(g)

SpecWindow == InitWindow /\ [][NextWindow]_vars

----------------------------------------------------------------------------
(* Claims about the Window, checked under SpecWindow *)

\* the C values pushed last, oldest first, once N >= C values were pushed
LastPushed(N, C) == SubSeq(hist, N - C + 1, N)

\* C1: a full-only snapshot (GetFull, PushGetFull), at the moment it is taken
\* after N pushes into a window of capacity C, is nil when N < C and otherwise
\* holds exactly the C values pushed last, in push order, oldest first.
C1_FullSnapshotIsLastC ==
    \A g \in Goroutines :
        (pc[g] = "got" /\ call[g].op \in {"GetFull", "PushGetFull"}) =>
            LET N == Len(hist)
                C == Cap(window)
                s == ret[g].slice
            IN  IF N < C
                THEN s.kind = "nil"
                ELSE /\ s.kind # "nil"
                     /\ s.len = C
                     /\ Contents(s, window.data) = LastPushed(N, C)

\* a full snapshot taken after the window has wrapped, whose order matters
C1_Witness ==
    \E g \in Goroutines :
        /\ pc[g] = "got"
        /\ call[g].op = "PushGetFull"
        /\ Len(hist) > Cap(window)
        /\ marker(window) # 0
        /\ ret[g].slice.len = Cap(window)
        /\ Contents(ret[g].slice, window.data)[1] # call[g].v

\* C2: whenever no push is half done, after N pushes into a window of capacity
\* C, Count() is N, Len() is min(N, C) and Full() is true exactly when N >= C.
C2_CountLenFull ==
    (\A g \in Goroutines : pc[g] # "stored") =>
        LET N == Len(hist)
            C == Cap(window)
        IN  /\ Count(window) = N
            /\ WindowLen(window) = MinOf(N, C)
            /\ (Full(window) <=> N >= C)

\* more values pushed than the window holds, and Len() capped at the capacity
C2_Witness ==
    /\ \A g \in Goroutines : pc[g] = "idle"
    /\ Len(hist) > Cap(window)
    /\ Cap(window) > 1
    /\ WindowLen(window) = Cap(window)
    /\ Count(window) = MaxPush

\* C4: a slice a Window method returned keeps the values it had when it was
\* returned, whatever is pushed afterwards.
C4_SnapshotIsCopy ==
    \A g \in Goroutines :
        held[g].slice.kind # "nil" =>
            Contents(held[g].slice, window.data) = held[g].taken

Range(f) == {f[i] : i \in DOMAIN f}

\* C5: push calls are atomic: the counts returned are distinct, and are exactly
\* 1..N once no push call is running; the count a call returns is the position
\* of its own value among the values pushed, and the snapshot it computes holds
\* the values pushed up to and including its own, its own as the newest.
C5_PushAndSnapshotAtomic ==
    /\ \A i, j \in DOMAIN returned : i # j => returned[i] # returned[j]
    /\ Range(returned) \subseteq 1..Len(hist)
    /\ (\A g \in Goroutines : call[g].op \notin PushOps) =>
           (Range(returned) = 1..Len(hist) /\ window.count = Len(hist))
    /\ \A g \in Goroutines :
           (pc[g] = "got" /\ call[g].op \in PushOps) =>
               LET n == ret[g].count
                   s == ret[g].slice
                   L == MinOf(n, Cap(window))
               IN  /\ n \in 1..Len(hist)
                   /\ hist[n] = call[g].v
                   /\ s.kind # "nil" =>
                          /\ s.len = L
                          /\ Contents(s, window.data) = SubSeq(hist, n - L + 1, n)

\* a push call computes its snapshot after both goroutines pushed, while the
\* other goroutine is between two calls
C5_Witness ==
    \E g \in Goroutines :
        /\ pc[g] = "got"
        /\ call[g].op = "PushGet"
        /\ ret[g].count = 3
        /\ ret[g].slice.len = MinOf(3, Cap(window))
        /\ Len(returned) = 2
        /\ \E h \in Goroutines \ {g} : held[h].slice.kind # "nil"

----------------------------------------------------------------------------
(* The pure functions cdfCost and ecdf, applied to inputs drawn by Init *)

\* the CDF values a scan can meet: fractions over twice a segment length
CDFValues == {Rat(a, b) : a \in 0..(2 * MaxCap), b \in 1..(2 * MaxCap)}
DataSizes == 0..MaxCap
SortedWindows == {Sort(d) : d \in UNION {[1..n -> Values] : n \in 1..MaxCap}}
Probes == {2 * x : x \in Values} \cup {2 * x + 1 : x \in Values}

InitPure ==
    /\ \/ \E value \in CDFValues, dataSize \in DataSizes :
              fin = [fn |-> "cdfCost", value |-> value, dataSize |-> dataSize]
       \/ \E data \in SortedWindows, probe \in Probes :
              fin = [fn |-> "ecdf", data |-> data, probe |-> probe]
    /\ fout = <<>>
    /\ window = NoWindow
    /\ nunc = NoNunc
    /\ ctor = NoCtor
    /\ last = NoLast
    /\ panicked = FALSE
    /\ WindowIdle

\* 1 - value
conj(value) == RSub(Rat(1, 1), value)

EvalCdfCost ==
    /\ fin.fn = "cdfCost"
    /\ fout = <<>>
    /\ fout' = <<cdfCost(fin.value, fin.dataSize), cdfCost(conj(fin.value), fin.dataSize)>>
    /\ UNCHANGED <<window, lockW, lockR, pc, call, ret, held, hist, returned,
                   nunc, ctor, last, panicked, fin>>

EvalEcdf ==
    /\ fin.fn = "ecdf"
    /\ fout = <<>>
    /\ fout' = <<ecdf(fin.data, fin.probe)>>
    /\ UNCHANGED <<window, lockW, lockR, pc, call, ret, held, hist, returned,
                   nunc, ctor, last, panicked, fin>>

NextPure == EvalCdfCost \/ EvalEcdf

SpecPure == InitPure /\ [][NextPure]_vars

\* C8: cdfCost(v, n) = cdfCost(1 - v, n) for every v strictly between 0 and 1.
C8_CdfCostSymmetric ==
    (fin.fn = "cdfCost" /\ fout # <<>> /\ fin.value.n > 0 /\ fin.value.n < fin.value.d) =>
        fout[1] = fout[2]

\* C9: ecdf(q) over a sorted window of N values is (L + (R - L)/2) / N with an
\* exact half, L the number of values < q and R the number of values <= q.
C9_EcdfMidRank ==
    (fin.fn = "ecdf" /\ fout # <<>>) =>
        LET L == Cardinality({i \in DOMAIN fin.data : 2 * fin.data[i] < fin.probe})
            R == Cardinality({i \in DOMAIN fin.data : 2 * fin.data[i] <= fin.probe})
        IN  fout[1] = Rat(2 * L + (R - L), 2 * Len(fin.data))

=============================================================================
